---- MODULE Spec2Model ----
(***************************************************************************)
(* find_hardlinks (src/src/backup/find_hardlinks.py): the hardlink scan.   *)
(*                                                                         *)
(* The main thread validates min_links, opens the output sink, walks the   *)
(* originals directory submitting one add_file_inode_to_map task per file  *)
(* to a thread pool, waits for the pool, walks the root directory          *)
(* submitting one check_if_file_is_hardlink task per file, waits again,    *)
(* and then prints the groups.  The filesystem is an environment that may  *)
(* delete files while the scan runs.                                       *)
(*                                                                         *)
(* add_all_subdirectories_to_library                                       *)
(* (src/src/jellyfin/add_all_subdirectories_to_library.py): the command    *)
(* that posts the new subdirectories of a folder to a Jellyfin library,    *)
(* the last of them with a library refresh.                                *)
(*                                                                         *)
(* Paths are sequences of components, so that Path.is_relative_to is the   *)
(* lexical prefix test it is in pathlib.  A path relative to the working   *)
(* directory starts with the component ".".                                *)
(***************************************************************************)
EXTENDS Integers, Sequences, FiniteSets, TLC

VARIABLES
    args,                 \* the parameters of find_hardlinks
    fs,                   \* the filesystem at the start of the scan
    deleted,              \* files unlinked since the scan started
    pc,                   \* position of the main thread
    output_file,          \* the sink opened at lines 75-81
    originals_inode_map,  \* dict[Path, int], line 84
    paths_per_inode,      \* defaultdict[int, list[Path]], line 85
    pending,              \* files enumerated by the current walk, not yet submitted
    indexer,              \* the add_file_inode_to_map task of each file
    classifier,           \* the check_if_file_is_hardlink task of each file
    emit_i,               \* how many groups the loop of line 109 has consumed
    output,               \* the lines printed, in order
    jf                    \* the call of add_all_subdirectories_to_library

\* The state of find_hardlinks.
scan_vars == <<args, fs, deleted, pc, output_file, originals_inode_map,
               paths_per_inode, pending, indexer, classifier, emit_i, output>>

vars == <<jf, args, fs, deleted, pc, output_file, originals_inode_map,
          paths_per_inode, pending, indexer, classifier, emit_i, output>>

----------------------------------------------------------------------------
(* Bounds *)

\* min_links ranges over 0 .. MaxMinLinks
MaxMinLinks == 3

----------------------------------------------------------------------------
(* The directory trees *)

\* The working directory of the process.
Cwd == <<"r">>

\* Path.absolute: a relative path is appended to the working directory; ".."
\* components are kept as they are.
Absolute(p) == IF p # <<>> /\ Head(p) = "." THEN Cwd \o Tail(p) ELSE p

\* The path with its "d/.." pairs removed: the entry the kernel reaches when
\* it looks the path up, and what Path.resolve returns for it.
RECURSIVE Canon(_)
Canon(p) ==
    IF \E i \in 2 .. Len(p) : p[i] = ".."
    THEN LET i == CHOOSE i \in 2 .. Len(p) :
                      p[i] = ".." /\ \A j \in 2 .. i - 1 : p[j] # ".."
         IN  Canon(SubSeq(p, 1, i - 2) \o SubSeq(p, i + 1, Len(p)))
    ELSE p

root_directory_path == <<"r">>
originals_directory_path == Absolute(args.originals_directory)

\* The originals directory and the skip directory, by their canonical paths.
OriginalsDir == <<"r", "o">>
SkipDir == <<"r", "s">>
OutFile == <<"out.txt">>

A  == <<"r", "o", "A">>
B  == <<"r", "o", "B">>
A2 == <<"r", "A2">>
A3 == <<"r", "A3">>
C  == <<"r", "C">>
L  == <<"r", "L">>
S  == <<"r", "s", "S">>
E  == <<"x", "E">>

Files == {A, B, A2, A3, C, L, S, E}

\* The order in which a top-down walk of / meets the files.
WalkOrder == <<A2, A3, C, L, A, B, S, E>>

\* Path.is_relative_to: a purely lexical prefix test.
IsRelativeTo(p, d) == Len(d) <= Len(p) /\ SubSeq(p, 1, Len(d)) = d

\* The directory holding p (the `path` of `path / file`).
Parent(p) == SubSeq(p, 1, Len(p) - 1)

----------------------------------------------------------------------------
(* The filesystem *)

\* st_ino of every regular file; B is either a second name of A's data or
\* a file of its own.
InodeOf(b) ==
    (A :> 100) @@ (B :> b) @@ (A2 :> 100) @@ (A3 :> 100) @@ (C :> 300)
        @@ (S :> 100) @@ (E :> 200)

\* The filesystems a scan starts from: the two trees alone, with the
\* unrelated file r/C, or the two trees with a symbolic link r/L, a file
\* under the skip directory and a file outside both trees.
FileSystems ==
    { [present |-> {A, B, A2, A3, C}, st_ino |-> InodeOf(b), target |-> <<>>,
       denied |-> {}] :
        b \in {100, 200} }
    \cup
    { [present |-> Files \ {C}, st_ino |-> InodeOf(b), target |-> (L :> t),
       denied |-> {}] :
        b \in {100, 200}, t \in {A, A2, S, E} }

\* Files the environment may unlink while the scan runs.
Deletable == {B, A2}

Exists(p) == Canon(p) \in fs.present /\ Canon(p) \notin deleted

\* Path.is_symlink: lstat, False when the entry is missing.
IsSymlink(p) == Exists(p) /\ Canon(p) \in DOMAIN fs.target

\* Path.resolve (non-strict): the target of a link, the canonical path
\* otherwise.
Resolve(p) == IF IsSymlink(p) THEN fs.target[Canon(p)] ELSE Canon(p)

\* A filesystem whose lookups never fail with anything but "not found".
RaisesNothing(p) == FALSE

\* lstat or stat of p raises an OSError other than FileNotFoundError.
Raises(p) == Canon(p) \in fs.denied

\* A stat that never raises (the entry read from a stale listing).
StatStale(p) == TRUE

\* Path.stat follows links; it raises FileNotFoundError unless StatFound.
StatFound(p) == Exists(p) /\ Exists(Resolve(p))
StIno(p) == fs.st_ino[Resolve(p)]

----------------------------------------------------------------------------
(* defaultdict[int, list[Path]], kept in insertion order *)

Keys(d) == { d[i].inode : i \in DOMAIN d }
IndexOf(d, k) == CHOOSE i \in DOMAIN d : d[i].inode = k
Group(d, k) == d[IndexOf(d, k)].paths

\* A list append that is not atomic: the slot written last by another
\* thread is overwritten.
LostUpdateAppend(paths, p) ==
    IF Len(paths) >= 2 THEN [paths EXCEPT ![Len(paths)] = p] ELSE Append(paths, p)

\* list.append
ListAppend(paths, p) == Append(paths, p)

\* A get-or-create that is not atomic: every append makes a list of its own.
AlwaysNewGroup(d, k, p) == Append(d, [inode |-> k, paths |-> <<p>>])

\* seen_inodes_map[inode].append(file_path): a missing key is created with
\* an empty list first (defaultdict(list)).
DefaultAppend(d, k, p) ==
    IF k \in Keys(d)
    THEN [d EXCEPT ![IndexOf(d, k)].paths = ListAppend(@, p)]
    ELSE Append(d, [inode |-> k, paths |-> ListAppend(<<>>, p)])

\* if inode in paths_per_inode: paths_per_inode[inode].append(file_path)
AppendIfKnown(d, k, p) ==
    IF k \in Keys(d) THEN DefaultAppend(d, k, p) ELSE d

----------------------------------------------------------------------------
(* The call *)

None == <<>>

\* append_to_file is read only when to_file is given (line 78); without
\* to_file it keeps its default.
Arguments ==
    { a \in [ min_links : 0 .. MaxMinLinks,
              to_file : {None, OutFile},
              append_to_file : BOOLEAN,
              skip_symlinks : BOOLEAN,
              include_originals_in_output : BOOLEAN,
              originals_directory : {OriginalsDir},
              skip_directories : {{SkipDir}} ] :
        a.to_file = None => a.append_to_file }

Idle == [pc |-> "idle", file_path |-> None, inode |-> 0]

\* The state find_hardlinks is entered in.
Begin ==
    /\ deleted = {}
    /\ pc = "validate"
    /\ output_file = "unopened"
    /\ originals_inode_map = <<>>
    /\ paths_per_inode = <<>>
    /\ pending = <<>>
    /\ indexer = [f \in Files |-> Idle]
    /\ classifier = [f \in Files |-> Idle]
    /\ emit_i = 0
    /\ output = <<>>

\* add_all_subdirectories_to_library is not called.
NotCalled == [pc |-> "not_called"]

Init == args \in Arguments /\ fs \in FileSystems /\ Begin /\ jf = NotCalled

\* The validation off by one.
ValidFromZero(n) == n >= 0

\* line 73
ValidMinLinks(n) == n >= 1

\* lines 73-74: raise ValueError before anything else.
Validate ==
    /\ pc = "validate"
    /\ pc' = IF ValidMinLinks(args.min_links) THEN "open" ELSE "raised"
    /\ UNCHANGED <<jf, args, fs, deleted, output_file, originals_inode_map,
                   paths_per_inode, pending, indexer, classifier, emit_i, output>>

\* lines 75-81
OpenMode ==
    IF args.to_file = None THEN "stdout"
    ELSE IF args.append_to_file THEN "a" ELSE "w"

OpenOutput ==
    /\ pc = "open"
    /\ output_file' = OpenMode
    /\ pc' = "walk_originals"
    /\ UNCHANGED <<jf, args, fs, deleted, originals_inode_map, paths_per_inode,
                   pending, indexer, classifier, emit_i, output>>

\* The files a walk of directory d enumerates: those present under d, each
\* as d / <its path below d>, those whose directory is relative to one of
\* `skip` left out.
Listing(d, skip) ==
    LET found == SelectSeq(WalkOrder,
                           LAMBDA q : Exists(q) /\ IsRelativeTo(q, Canon(d)))
        joined == [i \in DOMAIN found |->
                      d \o SubSeq(found[i], Len(Canon(d)) + 1, Len(found[i]))]
    IN  SelectSeq(joined,
                  LAMBDA p : ~ \E s \in skip : IsRelativeTo(Parent(p), s))

\* line 87: originals_directory_path.walk()
WalkOriginals ==
    /\ pc = "walk_originals"
    /\ pending' = Listing(originals_directory_path, {})
    /\ pc' = "submit_indexers"
    /\ UNCHANGED <<jf, args, fs, deleted, output_file, originals_inode_map,
                   paths_per_inode, indexer, classifier, emit_i, output>>

\* lines 88-95: executor.submit(add_file_inode_to_map, file_path, ...)
SubmitIndexer ==
    /\ pc = "submit_indexers"
    /\ pending # <<>>
    /\ indexer' = [indexer EXCEPT ![Canon(Head(pending))] =
                      [pc |-> "ready", file_path |-> Head(pending), inode |-> 0]]
    /\ pending' = Tail(pending)
    /\ UNCHANGED <<jf, args, fs, deleted, pc, output_file, originals_inode_map,
                   paths_per_inode, classifier, emit_i, output>>

\* line 15: inode = file_path.stat().st_ino; FileNotFoundError ends the
\* task, any other exception ends it too and is kept in the task's Future,
\* which nothing reads.
IndexerStat(f) ==
    /\ indexer[f].pc = "ready"
    /\ LET p == indexer[f].file_path
       IN  indexer' = [indexer EXCEPT ![f] =
                          IF Raises(p)
                          THEN [pc |-> "failed", file_path |-> p, inode |-> 0]
                          ELSE IF StatFound(p)
                          THEN [pc |-> "statted", file_path |-> p, inode |-> StIno(p)]
                          ELSE [pc |-> "done", file_path |-> p, inode |-> 0]]
    /\ UNCHANGED <<jf, args, fs, deleted, pc, output_file, originals_inode_map,
                   paths_per_inode, pending, classifier, emit_i, output>>

\* lines 16-17
IndexerRecord(f) ==
    /\ indexer[f].pc = "statted"
    /\ originals_inode_map' =
          (indexer[f].file_path :> indexer[f].inode) @@ originals_inode_map
    /\ paths_per_inode' =
          DefaultAppend(paths_per_inode, indexer[f].inode, indexer[f].file_path)
    /\ indexer' = [indexer EXCEPT ![f].pc = "done"]
    /\ UNCHANGED <<jf, args, fs, deleted, pc, output_file, pending, classifier,
                   emit_i, output>>

\* A join that re-raises the exception of a failed task instead of leaving
\* the with block.
AllSucceeded(tasks) == \A f \in Files : tasks[f].pc \in {"idle", "done"}

\* A join that waits for a task of every file, submitted or not.
WaitsForEveryFile(tasks) == \A f \in Files : tasks[f].pc \in {"done", "failed"}

\* An executor left with shutdown(wait=False).
NoWait(tasks) == TRUE

\* What ThreadPoolExecutor.__exit__ waits for: every submitted task is over.
AllDone(tasks) == \A f \in Files : tasks[f].pc \in {"idle", "done", "failed"}

\* line 86, leaving the with block: executor.shutdown(wait=True)
JoinIndexers ==
    /\ pc = "submit_indexers"
    /\ pending = <<>>
    /\ AllDone(indexer)
    /\ pc' = "walk_root"
    /\ UNCHANGED <<jf, args, fs, deleted, output_file, originals_inode_map,
                   paths_per_inode, pending, indexer, classifier, emit_i, output>>

\* lines 97-99: root_directory_path.walk(), skipping the skip directories
WalkRoot ==
    /\ pc = "walk_root"
    /\ pending' = Listing(root_directory_path, args.skip_directories)
    /\ pc' = "submit_classifiers"
    /\ UNCHANGED <<jf, args, fs, deleted, output_file, originals_inode_map,
                   paths_per_inode, indexer, classifier, emit_i, output>>

\* lines 100-108: executor.submit(check_if_file_is_hardlink, file_path, ...)
SubmitClassifier ==
    /\ pc = "submit_classifiers"
    /\ pending # <<>>
    /\ classifier' = [classifier EXCEPT ![Canon(Head(pending))] =
                         [pc |-> "ready", file_path |-> Head(pending), inode |-> 0]]
    /\ pending' = Tail(pending)
    /\ UNCHANGED <<jf, args, fs, deleted, pc, output_file, originals_inode_map,
                   paths_per_inode, indexer, emit_i, output>>

\* The symlink policy without the test of line 35.
ClassifyNoExclusion(p, skip_symlinks) ==
    IF IsSymlink(p) THEN (IF skip_symlinks THEN None ELSE Resolve(p)) ELSE p

\* The policy that resolves a symlink whatever skip_symlinks says.
ClassifyAlwaysResolve(p, skip_symlinks) ==
    LET q == IF IsSymlink(p) THEN Resolve(p) ELSE p
    IN  IF IsRelativeTo(q, originals_directory_path) THEN None ELSE q

\* lines 30-36: the symlink policy and the originals-directory exclusion.
\* The result is the path to stat, or None when the task returns.
Classify(p, skip_symlinks) ==
    LET q == IF IsSymlink(p) THEN (IF skip_symlinks THEN None ELSE Resolve(p))
             ELSE p
    IN  IF q # None /\ IsRelativeTo(q, originals_directory_path) THEN None ELSE q

\* lines 29-41: one check_if_file_is_hardlink task.  Its filesystem lookups
\* (is_symlink, resolve, stat) and its append are taken in one step: the
\* pool's threads interleave whole appends (list.append is atomic), and a
\* file unlinked between the lookups gives what unlinking it before them
\* gives, FileNotFoundError at line 37.  Another exception of is_symlink
\* (line 30) or stat (line 37) ends the task and is kept in its Future.
Classifier(f) ==
    /\ classifier[f].pc = "ready"
    /\ LET p == classifier[f].file_path
           q == Classify(p, args.skip_symlinks)
       IN  IF Raises(p) \/ (q # None /\ Raises(q))
           THEN /\ paths_per_inode' = paths_per_inode
                /\ classifier' = [classifier EXCEPT ![f] =
                       [pc |-> "failed", file_path |-> p, inode |-> 0]]
           ELSE /\ paths_per_inode' =
                       IF q # None /\ StatFound(q)
                       THEN AppendIfKnown(paths_per_inode, StIno(q), q)
                       ELSE paths_per_inode
                /\ classifier' = [classifier EXCEPT ![f] =
                       [pc |-> "done", file_path |-> IF q = None THEN f ELSE q,
                        inode |-> IF q # None /\ StatFound(q) THEN StIno(q) ELSE 0]]
    /\ UNCHANGED <<jf, args, fs, deleted, pc, output_file, originals_inode_map,
                   pending, indexer, emit_i, output>>

\* line 96, leaving the with block
JoinClassifiers ==
    /\ pc = "submit_classifiers"
    /\ pending = <<>>
    /\ AllDone(classifier)
    /\ pc' = "emit"
    /\ UNCHANGED <<jf, args, fs, deleted, output_file, originals_inode_map,
                   paths_per_inode, pending, indexer, classifier, emit_i, output>>

\* The threshold counting the designated original as a link.
EmittedCountsOriginal(paths, min_links) == Len(paths) >= min_links

\* The threshold taken strictly.
EmittedStrict(paths, min_links) == Len(paths) - 1 > min_links

\* line 112
Emitted(paths, min_links) == Len(paths) - 1 >= min_links

\* The original printed whatever include_originals_in_output says.
BlockAlwaysOriginal(paths, min_links, include_originals) ==
    IF Len(paths) - 1 >= min_links THEN paths ELSE <<>>

\* lines 111-116: the lines one group prints
Block(paths, min_links, include_originals) ==
    IF Emitted(paths, min_links)
    THEN (IF include_originals THEN <<paths[1]>> ELSE <<>>)
         \o [i \in 1 .. Len(paths) - 1 |-> paths[i + 1]]
    ELSE <<>>

\* lines 109-116: one iteration of the loop over paths_per_inode.values()
EmitGroup ==
    /\ pc = "emit"
    /\ emit_i < Len(paths_per_inode)
    /\ emit_i' = emit_i + 1
    /\ output' = output \o Block(paths_per_inode[emit_i + 1].paths,
                                 args.min_links, args.include_originals_in_output)
    /\ UNCHANGED <<jf, args, fs, deleted, pc, output_file, originals_inode_map,
                   paths_per_inode, pending, indexer, classifier>>

\* the loop of line 109 is exhausted: find_hardlinks returns
Return ==
    /\ pc = "emit"
    /\ emit_i = Len(paths_per_inode)
    /\ pc' = "done"
    /\ UNCHANGED <<jf, args, fs, deleted, output_file, originals_inode_map,
                   paths_per_inode, pending, indexer, classifier, emit_i, output>>

\* The environment unlinks a file between its enumeration by a walk and the
\* start of its task.
Enumerated(f) ==
    \/ \E i \in DOMAIN pending : Canon(pending[i]) = f
    \/ indexer[f].pc = "ready"
    \/ classifier[f].pc = "ready"

Delete(f) ==
    /\ Enumerated(f)
    /\ Exists(f)
    /\ deleted' = deleted \cup {f}
    /\ UNCHANGED <<jf, args, fs, pc, output_file, originals_inode_map,
                   paths_per_inode, pending, indexer, classifier, emit_i, output>>

Next ==
    \/ Validate
    \/ OpenOutput
    \/ WalkOriginals
    \/ SubmitIndexer
    \/ \E f \in Files : IndexerStat(f)
    \/ \E f \in Files : IndexerRecord(f)
    \/ JoinIndexers
    \/ WalkRoot
    \/ SubmitClassifier
    \/ \E f \in Files : Classifier(f)
    \/ JoinClassifiers
    \/ EmitGroup
    \/ Return
    \/ \E f \in Deletable : Delete(f)

Spec == Init /\ [][Next]_vars

----------------------------------------------------------------------------
(* Calls that name the directories other than by their canonical paths *)

\* originals_directory given as "o" or as "s/../o", skip_directories as "s"
\* or as its absolute path, all from the working directory r.
PathArguments ==
    [ min_links : {1},
      to_file : {None},
      append_to_file : {TRUE},
      skip_symlinks : BOOLEAN,
      include_originals_in_output : {FALSE},
      originals_directory : {<<".", "o">>, <<".", "s", "..", "o">>},
      skip_directories : {{<<".", "s">>}, {SkipDir}} ]

InitPaths ==
    args \in PathArguments /\ fs \in FileSystems /\ Begin /\ jf = NotCalled

SpecPaths == InitPaths /\ [][Next]_vars

----------------------------------------------------------------------------
(* Scans of trees with files whose stat fails *)

\* The files on which lstat and stat raise PermissionError.
DeniedSets == {{B}, {A2}, {B, A2}}

FaultyFileSystems ==
    { [f EXCEPT !.denied = D] : f \in FileSystems, D \in DeniedSets }

ErrorArguments ==
    [ min_links : {1},
      to_file : {None},
      append_to_file : {TRUE},
      skip_symlinks : BOOLEAN,
      include_originals_in_output : BOOLEAN,
      originals_directory : {OriginalsDir},
      skip_directories : {{SkipDir}} ]

InitErrors ==
    args \in ErrorArguments /\ fs \in FaultyFileSystems /\ Begin /\ jf = NotCalled

SpecErrors == InitErrors /\ [][Next]_vars

----------------------------------------------------------------------------
(* The scan under fair scheduling *)

\* The steps of the thread that called find_hardlinks.
MainThread ==
    \/ Validate
    \/ OpenOutput
    \/ WalkOriginals
    \/ SubmitIndexer
    \/ JoinIndexers
    \/ WalkRoot
    \/ SubmitClassifier
    \/ JoinClassifiers
    \/ EmitGroup
    \/ Return

\* The steps of the pool's tasks for file f.
Worker(f) == IndexerStat(f) \/ IndexerRecord(f) \/ Classifier(f)

\* A step of the scan, by the main thread or by a thread of the pool.
ScanStep == MainThread \/ \E f \in Files : Worker(f)

\* The threads of the process keep running: while some step of the scan is
\* possible, one is eventually taken.  Nothing is asked of the environment
\* that unlinks files.
Fairness == WF_vars(ScanStep)

LiveArguments ==
    [ min_links : {0, 1},
      to_file : {None},
      append_to_file : {TRUE},
      skip_symlinks : BOOLEAN,
      include_originals_in_output : {FALSE},
      originals_directory : {OriginalsDir},
      skip_directories : {{SkipDir}} ]

\* The trees in which A and B are one file, with and without a stat that
\* fails.
LiveFileSystems ==
    { f \in FileSystems \cup FaultyFileSystems :
        f.st_ino[B] = 100 /\ f.denied \in {{}, {A2}} }

InitLive ==
    args \in LiveArguments /\ fs \in LiveFileSystems /\ Begin /\ jf = NotCalled

SpecFair == InitLive /\ [][Next]_vars /\ Fairness

----------------------------------------------------------------------------
(* add_all_subdirectories_to_library *)

\* The subdirectories scandir may find in parent_folder_path.
Da == <<"m", "a">>
Db == <<"m", "b">>
Dc == <<"m", "c">>
Subdirectories == {Da, Db, Dc}

\* str.replace(path_replace_from, path_replace_to), on whole components.
Replace(p, from, to) == [i \in DOMAIN p |-> IF p[i] = from THEN to ELSE p[i]]

\* The calls: an option that is not given is the empty string (it is tested
\* for truth only); dirs is what scandir finds; library_found and locations
\* are what the server answers to get_libraries.
Calls ==
    [ api_key : {"", "key"},
      path_replace_from : {"", "m"},
      path_replace_to : {"", "n"},
      dirs : SUBSET Subdirectories,
      library_found : BOOLEAN,
      locations : {{}, {Da}, {Replace(Da, "m", "n")}, Subdirectories} ]

\* lines 46-55
JfValid(c) ==
    /\ c.api_key # ""
    /\ ~ (c.path_replace_from # "" /\ c.path_replace_to = "")
    /\ ~ (c.path_replace_to # "" /\ c.path_replace_from = "")

\* lines 56-62
Paths(c) ==
    { IF c.path_replace_from # "" /\ c.path_replace_to # ""
      THEN Replace(d, c.path_replace_from, c.path_replace_to)
      ELSE d : d \in c.dirs }

InitJellyfin ==
    /\ args = CHOOSE a \in Arguments : TRUE
    /\ fs = CHOOSE f \in FileSystems : TRUE
    /\ Begin
    /\ \E c \in Calls :
          jf = [call |-> c, pc |-> "validate", paths |-> {}, new_paths |-> {},
                last_path |-> <<>>, task |-> <<>>, requests |-> <<>>]

\* lines 46-62: the two ValueErrors, then the set of paths
JfValidate ==
    /\ jf.pc = "validate"
    /\ jf' = IF JfValid(jf.call)
             THEN [jf EXCEPT !.pc = "get_libraries", !.paths = Paths(jf.call)]
             ELSE [jf EXCEPT !.pc = "raised"]
    /\ UNCHANGED scan_vars

\* line 64 and utils.py lines 30-33: raise_for_status on the answer
JfGetLibraries ==
    /\ jf.pc = "get_libraries"
    /\ \E ok \in BOOLEAN :
          jf' = [jf EXCEPT !.pc = IF ok THEN "select" ELSE "raised"]
    /\ UNCHANGED scan_vars

\* lines 65-76: the library, the new paths, and new_paths.pop()
JfSelect ==
    /\ jf.pc = "select"
    /\ LET new == jf.paths \ jf.call.locations
       IN  IF ~ jf.call.library_found
           THEN jf' = [jf EXCEPT !.pc = "raised"]
           ELSE IF new = {}
           THEN jf' = [jf EXCEPT !.pc = "done"]
           ELSE \E last \in new :
                    jf' = [jf EXCEPT !.pc = "gather",
                                     !.last_path = last,
                                     !.new_paths = new \ {last},
                                     !.task = [q \in new \ {last} |-> "created"]]
    /\ UNCHANGED scan_vars

\* lines 79-81 and utils.py lines 38-42: one coroutine of the gather posts
JfPost(q) ==
    /\ jf.pc = "gather"
    /\ q \in DOMAIN jf.task
    /\ jf.task[q] = "created"
    /\ jf' = [jf EXCEPT !.task[q] = "sent",
                        !.requests = Append(@, [path |-> q, refresh_library |-> FALSE])]
    /\ UNCHANGED scan_vars

\* utils.py line 43: the answer arrives; raise_for_status
JfResponse(q) ==
    /\ jf.pc = "gather"
    /\ q \in DOMAIN jf.task
    /\ jf.task[q] = "sent"
    /\ \E ok \in BOOLEAN :
          jf' = [jf EXCEPT !.task[q] = IF ok THEN "ok" ELSE "error"]
    /\ UNCHANGED scan_vars

\* A wait that returns with the first coroutine that is over.
FirstCompleted(task) ==
    DOMAIN task = {} \/ \E q \in DOMAIN task : task[q] = "ok"

\* What await gather(...) waits for before it returns.
Gathered(task) == \A q \in DOMAIN task : task[q] = "ok"

\* lines 77-84: gather returns
JfGatherReturns ==
    /\ jf.pc = "gather"
    /\ Gathered(jf.task)
    /\ jf' = [jf EXCEPT !.pc = "refresh"]
    /\ UNCHANGED scan_vars

\* lines 77-84: gather raises the first exception of its coroutines; the
\* session is closed and nothing more is sent
JfGatherRaises ==
    /\ jf.pc = "gather"
    /\ \E q \in DOMAIN jf.task : jf.task[q] = "error"
    /\ jf' = [jf EXCEPT !.pc = "raised"]
    /\ UNCHANGED scan_vars

\* lines 85-87: the last path, with refresh_library=True
JfRefresh ==
    /\ jf.pc = "refresh"
    /\ jf' = [jf EXCEPT !.pc = "await_refresh",
                        !.requests = Append(@, [path |-> jf.last_path,
                                                refresh_library |-> TRUE])]
    /\ UNCHANGED scan_vars

\* utils.py line 43 and line 88
JfRefreshResponse ==
    /\ jf.pc = "await_refresh"
    /\ \E ok \in BOOLEAN :
          jf' = [jf EXCEPT !.pc = IF ok THEN "done" ELSE "raised"]
    /\ UNCHANGED scan_vars

NextJellyfin ==
    \/ JfValidate
    \/ JfGetLibraries
    \/ JfSelect
    \/ \E q \in Subdirectories \cup {Replace(d, "m", "n") : d \in Subdirectories} :
          JfPost(q)
    \/ \E q \in Subdirectories \cup {Replace(d, "m", "n") : d \in Subdirectories} :
          JfResponse(q)
    \/ JfGatherReturns
    \/ JfGatherRaises
    \/ JfRefresh
    \/ JfRefreshResponse

SpecJellyfin == InitJellyfin /\ [][NextJellyfin]_vars

----------------------------------------------------------------------------
(* Vocabulary of the properties *)

Range(seq) == { seq[i] : i \in DOMAIN seq }
InOriginals(p) == IsRelativeTo(Canon(p), OriginalsDir)
InRoot(p) == IsRelativeTo(p, root_directory_path)
UnderSkip(p) == \E s \in args.skip_directories : IsRelativeTo(p, s)
IsLink(f) == f \in DOMAIN fs.target

\* The path a root-tree entry stands for once links are resolved.
Resolved(f) == IF IsLink(f) THEN fs.target[f] ELSE f

\* The file was there from the start of the scan to now.
Stayed(f) == f \in fs.present /\ f \notin deleted

Groups == { paths_per_inode[i].paths : i \in DOMAIN paths_per_inode }
EmitterRuns == pc \in {"emit", "done"}

----------------------------------------------------------------------------
(* C1 *)

\* C1: when the emitter runs, every root-tree file that stayed in place, is
\* not under a skip directory, is not a skipped symlink, does not resolve into
\* the originals tree and whose inode is a key of paths_per_inode has its
\* (resolved) path in the group of that inode, whatever the order in which the
\* pool ran the check_if_file_is_hardlink tasks.
C1_NoLostUpdates ==
    EmitterRuns =>
        \A f \in Files :
            ( /\ InRoot(f) /\ Stayed(f)
              /\ ~ UnderSkip(f)
              /\ ~ (IsLink(f) /\ args.skip_symlinks)
              /\ ~ InOriginals(Resolved(f))
              /\ Stayed(Resolved(f))
              /\ \E i \in DOMAIN paths_per_inode :
                    paths_per_inode[i].inode = fs.st_ino[Resolved(f)] )
            => \E i \in DOMAIN paths_per_inode :
                  /\ paths_per_inode[i].inode = fs.st_ino[Resolved(f)]
                  /\ Resolved(f) \in Range(paths_per_inode[i].paths)

\* Three tasks (two hardlinks and a resolved symlink) appended to one group.
C1_Witness ==
    /\ pc = "done"
    /\ \E g \in Groups : {A2, A3, S} \subseteq Range(g)

----------------------------------------------------------------------------
(* C2 *)

\* A root-tree symlink that the resolve policy replaces by p.
ResolvedFromRoot(p) ==
    /\ ~ args.skip_symlinks
    /\ \E l \in Files : InRoot(l) /\ IsLink(l) /\ fs.target[l] = p

\* The statement of C2 as it stands: every group is non-empty, starts with an
\* originals-tree path, and every other element outside the originals tree is
\* a root-tree path with no originals-tree element after it.
C2_AsClaimed ==
    \A i \in DOMAIN paths_per_inode :
        LET paths == paths_per_inode[i].paths
        IN  /\ paths # <<>>
            /\ InOriginals(paths[1])
            /\ \A j \in DOMAIN paths :
                  ~ InOriginals(paths[j]) =>
                      /\ InRoot(paths[j])
                      /\ \A k \in j .. Len(paths) : ~ InOriginals(paths[k])

C2_Partition ==
    \A i \in DOMAIN paths_per_inode :
        LET paths == paths_per_inode[i].paths
        IN  /\ paths # <<>>
            /\ InOriginals(paths[1])
            /\ \A j \in DOMAIN paths :
                  ~ InOriginals(paths[j]) =>
                      /\ InRoot(paths[j]) \/ ResolvedFromRoot(paths[j])
                      /\ \A k \in j .. Len(paths) : ~ InOriginals(paths[k])

C2_Phase2OnlyAppends ==
    pc = "submit_classifiers" =>
        /\ Len(paths_per_inode') = Len(paths_per_inode)
        /\ \A i \in DOMAIN paths_per_inode :
              /\ paths_per_inode'[i].inode = paths_per_inode[i].inode
              /\ Len(paths_per_inode'[i].paths) >= Len(paths_per_inode[i].paths)
              /\ SubSeq(paths_per_inode'[i].paths, 1, Len(paths_per_inode[i].paths))
                    = paths_per_inode[i].paths

\* What is left of C2 when the directories are named by their canonical paths
\* (Spec, not SpecPaths): every group is non-empty and starts with an
\* originals-tree path; the elements appended in phase 2 lie outside the
\* originals tree, come after all originals-tree elements, and are root-tree
\* paths or, when symlinks are resolved, the target of a root-tree symlink
\* (which may lie outside the root tree); phase 2 only appends, it never
\* removes or reorders.
C2_OriginalFirst == [] C2_Partition /\ [][C2_Phase2OnlyAppends]_vars

\* A group whose original is followed by the target, outside the root tree,
\* of a resolved root-tree symlink.
C2_Witness ==
    /\ pc = "done"
    /\ \E g \in Groups : Len(g) >= 2 /\ InOriginals(g[1]) /\ g[Len(g)] = E

----------------------------------------------------------------------------
(* C3 *)

Finished(tasks) == \A f \in Files : tasks[f].pc \in {"idle", "done", "failed"}

\* C3: a check_if_file_is_hardlink task exists only after the originals walk
\* is over and every add_file_inode_to_map task has finished; the emitter
\* runs (and has printed anything) only after the root walk is over and every
\* task of both phases has finished.
C3_PhaseBarriers ==
    /\ (\E f \in Files : classifier[f].pc # "idle") =>
          /\ pc \notin {"validate", "open", "walk_originals", "submit_indexers"}
          /\ Finished(indexer)
    /\ (EmitterRuns \/ emit_i > 0 \/ output # <<>>) =>
          /\ pending = <<>>
          /\ Finished(indexer)
          /\ Finished(classifier)

\* The emitter is past its first group after tasks of both phases ran.
C3_Witness ==
    /\ pc = "emit" /\ emit_i = 1
    /\ \E f \in Files : indexer[f].pc = "done" /\ indexer[f].inode # 0
    /\ \E f \in Files : classifier[f].pc = "done" /\ classifier[f].inode # 0

----------------------------------------------------------------------------
(* C4 *)

\* C4: for min_links = N >= 1, a group the emitter has passed has one of its
\* paths in the output if and only if it has at least N entries beyond its
\* first; a group below the threshold has none.
C4_Threshold ==
    \A i \in 1 .. emit_i :
        LET paths == paths_per_inode[i].paths
        IN  (Range(paths) \cap Range(output) # {})
                <=> (Len(paths) - 1 >= args.min_links)

\* One group exactly at the threshold and one group one entry below it.
C4_Witness ==
    /\ pc = "done"
    /\ \E g \in Groups : Len(g) - 1 = args.min_links /\ Range(g) \cap Range(output) # {}
    /\ \E g \in Groups : Len(g) - 1 = args.min_links - 1 /\ Range(g) \cap Range(output) = {}

----------------------------------------------------------------------------
(* C5 *)

\* The trees of the end-to-end example: originals A (inode 100) and B (inode
\* 200); root A2 and A3 on inode 100 and C on inode 300; nothing is unlinked.
ExampleTrees ==
    /\ fs.present = {A, B, A2, A3, C}
    /\ fs.st_ino[A] = 100 /\ fs.st_ino[B] = 200
    /\ fs.st_ino[A2] = 100 /\ fs.st_ino[A3] = 100 /\ fs.st_ino[C] = 300
    /\ deleted = {}

\* The statement of C5 as it stands: with min_links = 2 the example prints
\* nothing.
C5_AsClaimed ==
    (pc = "done" /\ ExampleTrees /\ args.min_links = 2) => output = <<>>

\* C5 (amended): on the example's trees a scan with min_links = 2 prints A2
\* and A3, each once (after A when include_originals_in_output is set): the
\* group of inode 100 has two entries beyond A, which meets the threshold.
\* The output is empty from min_links = 3 on.
C5_Example ==
    (pc = "done" /\ ExampleTrees) =>
        /\ args.min_links = 2 =>
              IF args.include_originals_in_output
              THEN output \in {<<A, A2, A3>>, <<A, A3, A2>>}
              ELSE output \in {<<A2, A3>>, <<A3, A2>>}
        /\ args.min_links >= 3 => output = <<>>

C5_Witness ==
    /\ pc = "done" /\ ExampleTrees /\ args.min_links = 2
    /\ output = <<A2, A3>>

----------------------------------------------------------------------------
(* C6 *)

\* The entries of a group that lie outside the originals directory.
OutsideEntries(paths) == { j \in DOMAIN paths : ~ InOriginals(paths[j]) }

\* C6: a group the emitter has passed has lines in the output only if at
\* least min_links of its entries lie outside the originals directory.
C6_AsClaimed ==
    \A i \in 1 .. emit_i :
        LET paths == paths_per_inode[i].paths
        IN  (Range(paths) \cap Range(output) # {})
                => Cardinality(OutsideEntries(paths)) >= args.min_links

----------------------------------------------------------------------------
(* C7 *)

\* C7: with include_originals_in_output = false every printed path is a file
\* the root walk found, outside the originals directory, that shares its inode
\* with an originals file.
C7_AsClaimed ==
    ~ args.include_originals_in_output =>
        \A j \in DOMAIN output :
            LET p == output[j]
            IN  /\ ~ InOriginals(p)
                /\ InRoot(p) /\ p \in fs.present /\ ~ UnderSkip(p)
                /\ \E o \in Files :
                      InOriginals(o) /\ o \in fs.present
                          /\ fs.st_ino[o] = fs.st_ino[p]

----------------------------------------------------------------------------
(* C8 *)

\* What one iteration of the loop of line 109 may add to the output.
C8_Step ==
    emit_i' = emit_i + 1 =>
        LET paths == paths_per_inode[emit_i'].paths
            new   == SubSeq(output', Len(output) + 1, Len(output'))
        IN  /\ Len(output') >= Len(output)
            /\ SubSeq(output', 1, Len(output)) = output
            /\ new # <<>> =>
                  new = (IF args.include_originals_in_output
                         THEN <<Head(paths)>> ELSE <<>>) \o Tail(paths)

\* C8: one iteration of the emitter either prints nothing or prints, after
\* what was printed before, the group's first path when
\* include_originals_in_output is set and then all the group's other paths in
\* the order of the list; without the flag the first path is left out.
C8_IncludePolicy == [][C8_Step]_vars

\* The original was printed first, then its two links in append order.
C8_Witness ==
    /\ pc = "done"
    /\ args.include_originals_in_output
    /\ \E g \in Groups : g = <<A, A3, A2>>
    /\ output = <<A, A3, A2>>

----------------------------------------------------------------------------
(* C9 *)

\* C9: with min_links < 1 the call only raises: the sink is never opened, no
\* walk lists a directory, no task is submitted, the maps stay empty and
\* nothing is printed.
C9_ConfigError ==
    args.min_links < 1 =>
        /\ pc \in {"validate", "raised"}
        /\ output_file = "unopened"
        /\ pending = <<>>
        /\ \A f \in Files : indexer[f].pc = "idle" /\ classifier[f].pc = "idle"
        /\ originals_inode_map = <<>> /\ paths_per_inode = <<>>
        /\ output = <<>>

\* The error was raised though a file to write to was given.
C9_Witness == pc = "raised" /\ args.min_links = 0 /\ args.to_file = OutFile

----------------------------------------------------------------------------
(* C10 *)

\* The task of f ran after f was unlinked: its stat raised FileNotFoundError.
NotFoundByIndexer(f) == indexer[f].pc = "done" /\ indexer[f].inode = 0
NotFoundByClassifier(f) ==
    /\ classifier[f].pc = "done" /\ f \in deleted
    /\ ~ InOriginals(f)
    /\ ~ (IsLink(f) /\ args.skip_symlinks)

InAnyGroup(p) == \E g \in Groups : p \in Range(g)

\* The task of a root-tree symlink stat-ed its target p and found it.
FoundThroughLink(p) ==
    /\ ~ args.skip_symlinks
    /\ \E l \in Files :
          /\ l # p /\ IsLink(l) /\ fs.target[l] = p
          /\ classifier[l].pc = "done" /\ classifier[l].inode # 0

\* The statement of C10 as it stands: a file that was gone when its task
\* stat-ed it raises no error, is in no map and no group, and is never
\* printed.
C10_AsClaimed ==
    \A f \in Files :
        (NotFoundByIndexer(f) \/ NotFoundByClassifier(f)) =>
            /\ pc # "raised"
            /\ f \notin DOMAIN originals_inode_map
            /\ ~ InAnyGroup(f)
            /\ f \notin Range(output)

C10_State ==
    \A f \in Files :
        (NotFoundByIndexer(f) \/ NotFoundByClassifier(f)) =>
            /\ pc # "raised"
            /\ f \notin DOMAIN originals_inode_map
            /\ (InAnyGroup(f) \/ f \in Range(output)) => FoundThroughLink(f)

\* The step of a task whose file is gone: the task ends and changes nothing.
C10_Step ==
    \A f \in Files :
        /\ (indexer[f].pc = "ready" /\ indexer'[f].pc # "ready" /\ ~ Stayed(f)) =>
              /\ indexer'[f].pc = "done"
              /\ originals_inode_map' = originals_inode_map
              /\ paths_per_inode' = paths_per_inode
              /\ output' = output
        /\ (classifier[f].pc = "ready" /\ classifier'[f].pc # "ready" /\ ~ Stayed(f)) =>
              /\ classifier'[f].pc = "done"
              /\ originals_inode_map' = originals_inode_map
              /\ paths_per_inode' = paths_per_inode
              /\ output' = output

\* C10 (amended): in either phase the task of a file that was enumerated but
\* is gone when the task stats it ends without an error and changes neither
\* the path-to-inode map nor any group, so every other file's entries stay as
\* they were, and the file gets no entry in the path-to-inode map; its path is
\* in a group or in the output only when, with skip_symlinks = false, the task
\* of a root-tree symlink pointing to it stat-ed it while it was still there.
C10_TransientRace == [] C10_State /\ [][C10_Step]_vars

\* An originals file vanished before its indexer task and a root file before
\* its classifier task; the scan finished and neither is in a group.
C10_Witness ==
    /\ pc = "done"
    /\ NotFoundByIndexer(B) /\ NotFoundByClassifier(A2)
    /\ ~ InAnyGroup(B) /\ ~ InAnyGroup(A2)
    /\ InAnyGroup(A3)

----------------------------------------------------------------------------
(* C11 *)

\* The classifier task of f reached line 39 and appended the path it holds.
AppendedInPhase2(f) ==
    /\ classifier[f].pc = "done"
    /\ classifier[f].inode # 0
    /\ classifier[f].inode \in Keys(paths_per_inode)

\* C11: no path a classifier task appended to a group lies inside the
\* originals directory; in particular the task of a root-tree symlink that
\* resolves to an originals file appends nothing when symlinks are resolved.
C11_AsClaimed ==
    \A f \in Files :
        AppendedInPhase2(f) => ~ InOriginals(classifier[f].file_path)

----------------------------------------------------------------------------
(* C12 *)

\* The tasks of file t itself found it: the indexer recorded it or the
\* classifier stat-ed it.
FoundByOwnTask(t) ==
    \/ indexer[t].pc = "done" /\ indexer[t].inode # 0
    \/ classifier[t].pc = "done" /\ classifier[t].inode # 0

C12_State ==
    args.skip_symlinks =>
        \A l \in Files :
            (IsLink(l) /\ InRoot(l)) =>
                /\ classifier[l].pc = "done" => classifier[l].inode = 0
                /\ ~ InAnyGroup(l)
                /\ l \notin Range(output)
                /\ InAnyGroup(fs.target[l]) => FoundByOwnTask(fs.target[l])

C12_Step ==
    args.skip_symlinks =>
        \A l \in Files :
            (IsLink(l) /\ classifier[l].pc = "ready" /\ classifier'[l].pc # "ready") =>
                /\ classifier'[l].pc = "done"
                /\ paths_per_inode' = paths_per_inode
                /\ originals_inode_map' = originals_inode_map
                /\ output' = output

\* C12: with skip_symlinks = true the task of a root-tree symlink ends
\* without a stat and changes no group, whatever the link points to; the
\* link's path is in no group and is never printed, and the path of its target
\* is in a group only when the target's own task put it there.
C12_SkipSymlinks == [] C12_State /\ [][C12_Step]_vars

\* The scan is over; the skipped link points to x/E, whose inode is a key
\* (it is the inode of the original B), and x/E is in no group.
C12_Witness ==
    /\ pc = "done"
    /\ args.skip_symlinks
    /\ IsLink(L) /\ fs.target[L] = E
    /\ classifier[L].pc = "done"
    /\ fs.st_ino[E] \in Keys(paths_per_inode)
    /\ ~ InAnyGroup(E)

----------------------------------------------------------------------------
(* C13 *)

\* p lies in one of the directories skip_directories names.
UnderSkipDir(p) ==
    \E s \in args.skip_directories :
        IsRelativeTo(Canon(p), Canon(Absolute(s)))

\* C13: no file under a skip directory is submitted to the classifier, and
\* no path under a skip directory is in a group or in the output, for either
\* symlink policy.
C13_AsClaimed ==
    /\ \A f \in Files : UnderSkipDir(f) => classifier[f].pc = "idle"
    /\ \A g \in Groups : \A p \in Range(g) : ~ UnderSkipDir(p)
    /\ \A p \in Range(output) : ~ UnderSkipDir(p)

----------------------------------------------------------------------------
(* C14 *)

AfterPhase1 == pc \in {"walk_root", "submit_classifiers", "emit", "done"}

Occurrences(seq, x) == Cardinality({ i \in DOMAIN seq : seq[i] = x })

\* C14: once the indexer pool is joined there is one group per inode; every
\* originals file that is in place is exactly once in the group of its inode;
\* every path of the path-to-inode map is in the group of the inode the map
\* gives it, and before phase 2 appends anything every path of a group is in
\* the map with the inode of that group; whatever the order in which the
\* add_file_inode_to_map tasks ran.
C14_IndexerGrouping ==
    AfterPhase1 =>
        /\ \A i, j \in DOMAIN paths_per_inode :
              paths_per_inode[i].inode = paths_per_inode[j].inode => i = j
        /\ \A f \in Files :
              (InOriginals(f) /\ Stayed(f)) =>
                  \E i \in DOMAIN paths_per_inode :
                      /\ paths_per_inode[i].inode = fs.st_ino[f]
                      /\ Occurrences(paths_per_inode[i].paths, f) = 1
        /\ \A p \in DOMAIN originals_inode_map :
              \E i \in DOMAIN paths_per_inode :
                  /\ paths_per_inode[i].inode = originals_inode_map[p]
                  /\ p \in Range(paths_per_inode[i].paths)
        /\ pc = "walk_root" =>
              \A i \in DOMAIN paths_per_inode :
                  \A p \in Range(paths_per_inode[i].paths) :
                      /\ p \in DOMAIN originals_inode_map
                      /\ originals_inode_map[p] = paths_per_inode[i].inode

\* Two originals on one inode were recorded against the submission order and
\* share one group.
C14_Witness ==
    /\ pc = "walk_root"
    /\ paths_per_inode = << [inode |-> 100, paths |-> <<B, A>>] >>
    /\ originals_inode_map = (A :> 100) @@ (B :> 100)

----------------------------------------------------------------------------
(* C15 *)

Failed(f) == indexer[f].pc = "failed" \/ classifier[f].pc = "failed"

Running(tasks) == \E f \in Files : tasks[f].pc \in {"ready", "statted"}

\* A failed task holds up neither the submissions nor a join nor the emitter.
NothingHeldUp ==
    /\ (pc = "submit_indexers" /\ pending # <<>>) => ENABLED SubmitIndexer
    /\ (pc = "submit_indexers" /\ pending = <<>> /\ ~ Running(indexer))
          => ENABLED JoinIndexers
    /\ (pc = "submit_classifiers" /\ pending # <<>>) => ENABLED SubmitClassifier
    /\ (pc = "submit_classifiers" /\ pending = <<>> /\ ~ Running(classifier))
          => ENABLED JoinClassifiers
    /\ pc = "emit" => ENABLED (EmitGroup \/ Return)

\* A root-tree file the classifier is to append: in place, not skipped, not
\* resolving into the originals directory, with the inode of an original, and
\* neither it nor what it resolves to fails to stat.
Expected(f) ==
    /\ InRoot(f) /\ Stayed(f)
    /\ ~ UnderSkip(f)
    /\ ~ (IsLink(f) /\ args.skip_symlinks)
    /\ ~ InOriginals(Resolved(f))
    /\ Stayed(Resolved(f))
    /\ fs.st_ino[Resolved(f)] \in Keys(paths_per_inode)
    /\ f \notin fs.denied /\ Resolved(f) \notin fs.denied

C15_State ==
    /\ pc # "raised"
    /\ NothingHeldUp
    /\ \A f \in fs.denied :
          /\ f \notin DOMAIN originals_inode_map
          /\ ~ InAnyGroup(f)
          /\ f \notin Range(output)
    /\ AfterPhase1 =>
          \A f \in Files :
              (InOriginals(f) /\ Stayed(f) /\ f \notin fs.denied) =>
                  /\ f \in DOMAIN originals_inode_map
                  /\ f \in Range(Group(paths_per_inode, fs.st_ino[f]))
    /\ EmitterRuns =>
          \A f \in Files :
              Expected(f) =>
                  Resolved(f) \in Range(Group(paths_per_inode, fs.st_ino[Resolved(f)]))

\* The step in which a task fails changes nothing but that task.
C15_Step ==
    \A f \in Files :
        /\ (indexer[f].pc # "failed" /\ indexer'[f].pc = "failed") =>
              /\ \A g \in Files \ {f} : indexer'[g] = indexer[g]
              /\ UNCHANGED <<pc, pending, classifier, originals_inode_map,
                             paths_per_inode, output>>
        /\ (classifier[f].pc # "failed" /\ classifier'[f].pc = "failed") =>
              /\ \A g \in Files \ {f} : classifier'[g] = classifier[g]
              /\ UNCHANGED <<pc, pending, indexer, originals_inode_map,
                             paths_per_inode, output>>

----------------------------------------------------------------------------
(* C16 *)

RECURSIVE Blocks(_)
Blocks(n) ==
    IF n = 0 THEN <<>>
    ELSE Blocks(n - 1) \o Block(paths_per_inode[n].paths, args.min_links,
                                args.include_originals_in_output)

----------------------------------------------------------------------------
(* C17 *)

\* C17: when the emitter runs no path is twice in a group, and so no path is
\* printed twice, for both symlink policies.
C17_AsClaimed ==
    EmitterRuns =>
        /\ \A g \in Groups : \A p \in Range(g) : Occurrences(g, p) = 1
        /\ \A p \in Range(output) : Occurrences(output, p) = 1

----------------------------------------------------------------------------
(* C18 *)

\* The groups when the tasks run one after the other in the order of their
\* submission.
RECURSIVE IndexAll(_, _)
IndexAll(paths, d) ==
    IF paths = <<>> THEN d
    ELSE IndexAll(Tail(paths),
                  IF StatFound(Head(paths))
                  THEN DefaultAppend(d, StIno(Head(paths)), Head(paths))
                  ELSE d)

RECURSIVE ClassifyAll(_, _)
ClassifyAll(paths, d) ==
    IF paths = <<>> THEN d
    ELSE LET q == Classify(Head(paths), args.skip_symlinks)
         IN  ClassifyAll(Tail(paths),
                         IF q # None /\ StatFound(q)
                         THEN AppendIfKnown(d, StIno(q), q)
                         ELSE d)

RECURSIVE EmitAll(_)
EmitAll(d) ==
    IF d = <<>> THEN <<>>
    ELSE Block(Head(d).paths, args.min_links, args.include_originals_in_output)
             \o EmitAll(Tail(d))

\* What the scan prints when no task overtakes another.
SequentialOutput ==
    EmitAll(ClassifyAll(Listing(root_directory_path, args.skip_directories),
                        IndexAll(Listing(originals_directory_path, {}), <<>>)))

\* C18: on a filesystem that does not change during the scan, the set of
\* printed paths does not depend on the order in which the pool ran the
\* tasks: it is the set printed when the tasks run in submission order.
C18_AsClaimed ==
    (pc = "done" /\ deleted = {}) => Range(output) = Range(SequentialOutput)

----------------------------------------------------------------------------
(* C19 *)

TaskOver(t) == t.pc \in {"done", "failed"}

\* The scan is over: every task that was submitted is over, both pools are
\* joined and the emitter has passed every group.
Completed ==
    /\ pc = "done"
    /\ \A f \in Files :
          /\ indexer[f].pc \in {"idle", "done", "failed"}
          /\ classifier[f].pc \in {"idle", "done", "failed"}
    /\ pending = <<>>
    /\ emit_i = Len(paths_per_inode)

\* A task that is over is never run again.
C19_NoRetry ==
    \A f \in Files :
        /\ TaskOver(indexer[f]) => indexer'[f] = indexer[f]
        /\ TaskOver(classifier[f]) => classifier'[f] = classifier[f]

\* C19: with min_links >= 1, under fair scheduling of the main thread and of
\* the pool's tasks, every scan reaches the end of find_hardlinks with every
\* submitted task over, both pools joined and the emitter finished; a task
\* that is over is never run again; and until the call has returned or raised
\* some step of the scan is always possible.
C19_RunsToCompletion ==
    /\ (pc = "validate" /\ ValidMinLinks(args.min_links)) ~> Completed
    /\ [][C19_NoRetry]_vars
    /\ [](pc \notin {"done", "raised"}
            => ENABLED ScanStep)

\* The scan finished although files were unlinked and a task failed.
C19_Witness ==
    /\ Completed
    /\ deleted # {}
    /\ \E f \in Files : classifier[f].pc = "failed"
    /\ output # <<>>

----------------------------------------------------------------------------
(* C20 *)

\* The subdirectory paths that are not among the library's locations.
NewPaths == Paths(jf.call) \ jf.call.locations

\* The add requests sent for path q, and those that ask for a refresh.
AddRequests(q) == { i \in DOMAIN jf.requests : jf.requests[i].path = q }
Refreshing == { i \in DOMAIN jf.requests : jf.requests[i].refresh_library }

\* C20: only new paths are sent, none of them twice, and at most one request
\* asks for a refresh; that request is the last one sent, it carries the path
\* popped at line 76, and when it is sent every other new path has been sent
\* once without refresh and answered with success; once a request has failed
\* no refreshing request is sent; when the command returns, every new path
\* has been sent exactly once and exactly one request asked for the refresh;
\* with no new path nothing is sent.
C20_RefreshLast ==
    /\ \A i \in DOMAIN jf.requests : jf.requests[i].path \in NewPaths
    /\ \A q \in NewPaths : Cardinality(AddRequests(q)) <= 1
    /\ Cardinality(Refreshing) <= 1
    /\ \A i \in Refreshing :
          /\ i = Len(jf.requests)
          /\ jf.requests[i].path = jf.last_path
          /\ \A q \in NewPaths \ {jf.last_path} :
                /\ Cardinality(AddRequests(q)) = 1
                /\ jf.task[q] = "ok"
    /\ (\E q \in DOMAIN jf.task : jf.task[q] = "error") => Refreshing = {}
    /\ (jf.pc = "done" /\ NewPaths # {}) =>
          /\ \A q \in NewPaths : Cardinality(AddRequests(q)) = 1
          /\ Cardinality(Refreshing) = 1
    /\ NewPaths = {} => jf.requests = <<>>

\* Three new paths were added: two by the gather, answered in the order
\* opposite to their posts, then the third with the refresh.
C20_Witness ==
    /\ jf.pc = "done"
    /\ Len(jf.requests) = 3
    /\ ~ jf.requests[1].refresh_library
    /\ ~ jf.requests[2].refresh_library
    /\ jf.requests[3].refresh_library
    /\ jf.requests[3].path = jf.last_path

====
